---- MODULE Spec2Model ----
(***************************************************************************)
(* The extended Euclidean algorithm of src/egcd/egcd.py, function egcd,    *)
(* as a state machine: one state per visit of the loop head, one Step per  *)
(* iteration of the while loop, one Return for the return statement.       *)
(***************************************************************************)
EXTENDS Integers, Sequences, FiniteSets, TLC

VARIABLES b0, n0, b, n, x0, x1, y0, y1, pc, ret

vars == <<b0, n0, b, n, x0, x1, y0, y1, pc, ret>>

\* Arguments are drawn from -MaxAbs .. MaxAbs.
MaxAbs == 21

\* The doctest's range check runs over range(200) x range(200).
RangeHi == 200

Abs(i) == IF i < 0 THEN -i ELSE i

Sign(i) == IF i > 0 THEN 1 ELSE IF i < 0 THEN -1 ELSE 0

(***************************************************************************)
(* Python's integer division and remainder (d # 0).  The quotient is       *)
(* rounded toward negative infinity; the remainder is zero or has the sign *)
(* of the divisor.  Both are computed from magnitudes, as CPython does,    *)
(* and independently of one another.                                       *)
(***************************************************************************)
TruncDiv(a, d) ==
    LET m == Abs(a) \div Abs(d)
    IN  IF (a < 0) = (d < 0) THEN m ELSE -m

\* Division rounded toward positive infinity.
CeilDiv(a, d) ==
    LET m == Abs(a) \div Abs(d)
        exact == m * Abs(d) = Abs(a)
    IN  IF (a < 0) # (d < 0) THEN -m
        ELSE IF exact THEN m ELSE m + 1

PyFloorDiv(a, d) ==
    LET m == Abs(a) \div Abs(d)
        exact == m * Abs(d) = Abs(a)
    IN  IF (a < 0) = (d < 0) THEN m
        ELSE IF exact THEN -m ELSE -m - 1

TruncMod(a, d) ==
    LET m == Abs(a) % Abs(d)
    IN  IF a < 0 THEN -m ELSE m

PyMod(a, d) ==
    LET m == Abs(a) % Abs(d)
    IN  IF m = 0 THEN 0
        ELSE IF (a < 0) = (d < 0) THEN (IF d < 0 THEN -m ELSE m)
        ELSE (IF d < 0 THEN m - Abs(d) ELSE Abs(d) - m)

\* math.gcd, the reference of the doctest (line 38): the greatest common
\* divisor of the magnitudes, with gcd(0, 0) = 0.  It is computed by trial
\* division downward from the larger magnitude, not by Euclid's algorithm.
RECURSIVE GcdFrom(_, _, _)
GcdFrom(d, i, j) ==
    IF d = 0 THEN 0
    ELSE IF i % d = 0 /\ j % d = 0 THEN d
    ELSE GcdFrom(d - 1, i, j)

gcd(i, j) ==
    LET ai == Abs(i)
        aj == Abs(j)
    IN  GcdFrom(IF ai > aj THEN ai ELSE aj, ai, aj)

\* Entry of egcd(b, n): line 47 has run, the loop head is next.
Entry(args) ==
    /\ b0 \in args
    /\ n0 \in args
    /\ b = b0 /\ n = n0
    /\ x0 = 1 /\ x1 = 0 /\ y0 = 0 /\ y1 = 1
    /\ pc = "loop"
    /\ ret = <<>>

\* Entry with the two coefficient pairs initialised the other way round.
InitSwapped ==
    /\ b0 \in -MaxAbs..MaxAbs
    /\ n0 \in -MaxAbs..MaxAbs
    /\ b = b0 /\ n = n0
    /\ x0 = 0 /\ x1 = 1 /\ y0 = 1 /\ y1 = 0
    /\ pc = "loop"
    /\ ret = <<>>

Init == Entry(-MaxAbs..MaxAbs)

InitRange == Entry(0..(RangeHi - 1))

\* The loop body with line 49 written as three assignments in sequence:
\* n is then computed from the new b.
StepSequential ==
    /\ pc = "loop"
    /\ n # 0
    /\ LET q == PyFloorDiv(b, n)
       IN  /\ b' = n
           /\ n' = PyMod(n, n)
           /\ x0' = x1
           /\ x1' = x0 - q * x1
           /\ y0' = y1
           /\ y1' = y0 - q * y1
    /\ UNCHANGED <<b0, n0, pc, ret>>

\* The loop body with the remainder left out: b and n only trade places.
StepNoRemainder ==
    /\ pc = "loop"
    /\ n # 0
    /\ LET q == PyFloorDiv(b, n)
       IN  /\ b' = n
           /\ n' = b
           /\ x0' = x1
           /\ x1' = x0 - q * x1
           /\ y0' = y1
           /\ y1' = y0 - q * y1
    /\ UNCHANGED <<b0, n0, pc, ret>>

\* One iteration of the while loop, lines 48-51.
Step ==
    /\ pc = "loop"
    /\ n # 0
    /\ LET q == PyFloorDiv(b, n)
       IN  /\ b' = n
           /\ n' = PyMod(b, n)
           /\ x0' = x1
           /\ x1' = x0 - q * x1
           /\ y0' = y1
           /\ y1' = y0 - q * y1
    /\ UNCHANGED <<b0, n0, pc, ret>>

ReturnWith(t) ==
    /\ pc = "loop"
    /\ n = 0
    /\ ret' = t
    /\ pc' = "done"
    /\ UNCHANGED <<b0, n0, b, n, x0, x1, y0, y1>>

\* Variants of the return statement: the current remainder instead of the
\* previous one, the current coefficients instead of the previous ones, a
\* normalised non-negative g, and the two coefficients in the other order.
ReturnN == ReturnWith(<<n, x0, y0>>)

ReturnCur == ReturnWith(<<b, x1, y1>>)

ReturnAbs == ReturnWith(<<Abs(b), x0, y0>>)

ReturnSwapped == ReturnWith(<<b, y0, x0>>)

\* Loop exit and the return statement, lines 48 and 52.
Return ==
    /\ pc = "loop"
    /\ n = 0
    /\ ret' = <<b, x0, y0>>
    /\ pc' = "done"
    /\ UNCHANGED <<b0, n0, b, n, x0, x1, y0, y1>>

Next == Step \/ Return

Spec == Init /\ [][Next]_vars

SpecRange == InitRange /\ [][Next]_vars

\* The function runs to completion once called: nothing suspends it.
FairSpec == Init /\ [][Next]_vars /\ WF_vars(Step) /\ WF_vars(Return)

Returned == pc = "done"

g == ret[1]
a == ret[2]
m == ret[3]

\* C1: whenever egcd(b0, n0) has returned (g, a, m), for arguments of any
\* sign and for zero arguments, g = a*b0 + m*n0.
BezoutIdentity == Returned => g = a * b0 + m * n0

BezoutIdentityWitness ==
    Returned /\ b0 < 0 /\ n0 > 1 /\ a # 0 /\ m # 0 /\ g = a * b0 + m * n0

\* C2: for b0 and n0 in [0, 200), the returned g is math.gcd(b0, n0), and it
\* is 0 only when both arguments are 0.
RangeGcd ==
    Returned /\ b0 \in 0..(RangeHi - 1) /\ n0 \in 0..(RangeHi - 1)
        => /\ g = gcd(b0, n0)
           /\ (g = 0 => b0 = 0 /\ n0 = 0)

RangeGcdWitness == Returned /\ b0 = 180 /\ n0 = 168 /\ g = 12

\* C3: egcd(b0, 0) returns (b0, 1, 0) for b0 of any sign, and so
\* egcd(0, 0) returns (0, 1, 0).
ZeroCases == Returned /\ n0 = 0 => ret = <<b0, 1, 0>>

ZeroCasesWitness == Returned /\ n0 = 0 /\ b0 < 0 /\ ret = <<b0, 1, 0>>

\* C4: for arguments of any sign, the magnitude of the returned g is the
\* greatest common divisor of the magnitudes of the arguments.
Magnitude == Returned => Abs(g) = gcd(Abs(b0), Abs(n0))

MagnitudeWitness == Returned /\ b0 < 0 /\ n0 < 0 /\ Abs(g) > 1 /\ Abs(g) < Abs(n0)

\* C5 as stated: whenever b0 # 0, the returned g has the sign of b0.
SignFollowsB == Returned /\ b0 # 0 => Sign(g) = Sign(b0)

\* C5 as amended: whenever b0 # 0 and n0 is zero or has the sign of b0, the
\* returned g has the sign of b0.
SignFollowsBAmended ==
    Returned /\ b0 # 0 /\ (n0 = 0 \/ Sign(n0) = Sign(b0)) => Sign(g) = Sign(b0)

SignFollowsBWitness == Returned /\ b0 < -1 /\ n0 < b0 /\ g < 0

\* C6: egcd(1, 1) returns (1, 0, 1) and egcd(12, 8) returns (4, 1, -1).
KnownVectors ==
    /\ Returned /\ b0 = 1 /\ n0 = 1 => ret = <<1, 0, 1>>
    /\ Returned /\ b0 = 12 /\ n0 = 8 => ret = <<4, 1, -1>>

KnownVectorsWitness == Returned /\ b0 = 12 /\ n0 = 8 /\ ret = <<4, 1, -1>>

\* C7: for arguments of any sign the call returns, and every iteration of
\* the loop makes the current remainder n strictly smaller in magnitude.
Termination ==
    /\ <>Returned
    /\ [][pc = "loop" /\ n # 0 => Abs(n') < Abs(n)]_vars

TerminationWitness == Returned /\ b0 = -13 /\ n0 = 21 /\ n = 0

\* C8: at the loop head, before the first iteration and after each one,
\* b = x0*b0 + y0*n0 and n = x1*b0 + y1*n0.
LoopInvariant ==
    pc = "loop" => /\ b = x0 * b0 + y0 * n0
                   /\ n = x1 * b0 + y1 * n0

LoopInvariantWitness ==
    pc = "loop" /\ b0 < 0 /\ n0 > 0 /\ x0 # 0 /\ y0 # 0 /\ x1 # 0 /\ y1 # 0 /\ n # 0

\* C9: whenever n0 # 0, the returned g is nonzero and has the sign of n0,
\* whatever the sign of b0.
SignFollowsN == Returned /\ n0 # 0 => g # 0 /\ Sign(g) = Sign(n0)

SignFollowsNWitness == Returned /\ n0 < 0 /\ b0 > 0 /\ g < 0

\* C10: for b0 > 0 and n0 > 0, the returned coefficients satisfy
\* |a| <= n0 / g and |m| <= b0 / g.
CoeffBound ==
    Returned /\ b0 > 0 /\ n0 > 0
        => /\ Abs(a) <= n0 \div g
           /\ Abs(m) <= b0 \div g

CoeffBoundWitness ==
    Returned /\ b0 > 0 /\ n0 > 0 /\ g > 1 /\ Abs(a) > 1 /\ Abs(m) > 1

====
